---- MODULE Spec2Model ----
(***************************************************************************)
(* The embedding-guided approximate graph edit distance pipeline of        *)
(* gnn-ged: the pairwise distance-matrix orchestrator                      *)
(* (src/calc_matrix_distances.py, main) together with the collaborators it *)
(* calls, NodeMapping (embedding distances and node assignment) and        *)
(* EditCost (node and edge edit cost); and the k-fold cross-validation of  *)
(* the embedding model (gnn_ged/training/run_kfold_cv.py).                 *)
(***************************************************************************)
EXTENDS Integers, Sequences, FiniteSets, TLC

\* ------------------------------------------------------------------ bounds
\* Largest number of graphs in the test / train collection of one run.
MaxTest == 2
MaxTrain == 2
\* Cost matrices handed to the assignment solver on its own: at most
\* MaxCells entries, each in 0..MaxCost.
MaxCells == 9
MaxCost == 1
\* Graphs handed to the edit-cost accounting on its own: at most MaxNodes
\* nodes, node labels in 0..MaxLabel.
MaxNodes == 3
MaxLabel == 1
\* Cross-validation runs: at most MaxEpochs epochs per fold (args.epochs),
\* at most MaxBatches batches in a fold's train loader.
MaxEpochs == 2
MaxBatches == 2

\* ----------------------------------------------------------------- helpers
\* Python list indexing (0-based) on a TLA+ sequence.
At(s, i) == s[i + 1]

Range(s) == {s[k] : k \in 1..Len(s)}

\* A 0-based array from a literal sequence.
Arr(s) == [i \in 0..(Len(s) - 1) |-> s[i + 1]]

\* --------------------------------------------------------------- the graph
\* A networkx graph as to_networkx(..., node_attrs='x', to_undirected=True)
\* builds it: nodes 0..n-1, each undirected edge once as <<u, v>> with u < v,
\* node attribute x.
Graph(n, edges, x) == [n |-> n, edges |-> edges, x |-> Arr(x)]

number_of_nodes(g) == g.n

has_edge(g, u, v) == <<u, v>> \in g.edges \/ <<v, u>> \in g.edges

\* An embedding: an (n, dim) array, one row per node.
Embedding(dim, rows) == [n |-> Len(rows), dim |-> dim, vec |-> Arr(rows)]

\* ------------------------------------------------- EmbeddingDistance (4.1)
RECURSIVE SumSquares(_, _, _)
SumSquares(a, b, k) ==
    IF k = 0 THEN 0
    ELSE (a[k] - b[k]) * (a[k] - b[k]) + SumSquares(a, b, k - 1)

\* The exact square root; the embeddings used here are chosen so that every
\* squared distance is a perfect square.
Sqrt(x) == CHOOSE r \in 0..x : r * r = x

\* Euclidean (L2) distance between two vectors of the same length.
Euclidean(a, b) == Sqrt(SumSquares(a, b, Len(a)))

\* NodeMapping.compute_embedding_distances: the m x n matrix of pairwise
\* distances, or DimensionMismatch.
compute_embedding_distances(source_embedding, target_embedding) ==
    IF source_embedding.dim # target_embedding.dim
    THEN [ok |-> FALSE, error |-> "DimensionMismatch"]
    ELSE [ok |-> TRUE,
          value |-> [nr |-> source_embedding.n,
                     nc |-> target_embedding.n,
                     cost |-> [i \in 0..(source_embedding.n - 1) |->
                                [j \in 0..(target_embedding.n - 1) |->
                                   Euclidean(source_embedding.vec[i],
                                             target_embedding.vec[j])]]]]

\* ---------------------------------------------------- NodeAssignment (4.2)
\* The solver's "no path yet" cost.
INFINITY == 1000000

\* The for-loop of one search step over the columns not yet scanned:
\* relax the path cost of each through row s.i and keep the lowest, preferring
\* on a tie a column that is still unassigned (a new sink).
RECURSIVE ScanColumns(_, _, _)
ScanColumns(it, s, c) ==
    IF it >= s.num_remaining THEN s
    ELSE LET j == s.remaining[it]
             r == s.minVal + c.cost[s.i][j] - c.u[s.i] - c.v[j]
             better == r < s.shortestPathCosts[j]
             spc == IF better THEN [s.shortestPathCosts EXCEPT ![j] = r]
                    ELSE s.shortestPathCosts
             pth == IF better THEN [s.path EXCEPT ![j] = s.i] ELSE s.path
             take == \/ spc[j] < s.lowest
                     \/ (spc[j] = s.lowest /\ c.row4col[j] = -1)
         IN ScanColumns(it + 1,
                        [s EXCEPT !.shortestPathCosts = spc,
                                  !.path = pth,
                                  !.lowest = IF take THEN spc[j] ELSE @,
                                  !.index = IF take THEN it ELSE @],
                        c)

\* The while-loop of the search: grow the alternating tree from the current
\* row until an unassigned column (the sink) is reached.
RECURSIVE SearchSink(_, _)
SearchSink(s, c) ==
    IF s.sink # -1 THEN s
    ELSE LET s1 == ScanColumns(0,
                       [s EXCEPT !.index = -1,
                                 !.lowest = INFINITY,
                                 !.SR = [@ EXCEPT ![s.i] = TRUE]],
                       c)
             j == s1.remaining[s1.index]
             isSink == c.row4col[j] = -1
             left == s1.num_remaining - 1
         IN SearchSink([s1 EXCEPT !.minVal = s1.lowest,
                                  !.sink = IF isSink THEN j ELSE -1,
                                  !.i = IF isSink THEN @ ELSE c.row4col[j],
                                  !.SC = [@ EXCEPT ![j] = TRUE],
                                  !.num_remaining = left,
                                  !.remaining = [@ EXCEPT ![s1.index] = s1.remaining[left]]],
                       c)

\* The shortest augmenting path from row cur.
augmenting_path(D, t, cur) ==
    SearchSink([i |-> cur,
                minVal |-> 0,
                remaining |-> [it \in 0..(D.nc - 1) |-> D.nc - it - 1],
                num_remaining |-> D.nc,
                SR |-> [i \in 0..(D.nr - 1) |-> FALSE],
                SC |-> [j \in 0..(D.nc - 1) |-> FALSE],
                shortestPathCosts |-> [j \in 0..(D.nc - 1) |-> INFINITY],
                path |-> t.path,
                sink |-> -1,
                lowest |-> INFINITY,
                index |-> -1],
               [cost |-> D.cost, u |-> t.u, v |-> t.v, row4col |-> t.row4col])

\* Flip the assignment along the path that ends in column j.
RECURSIVE Augment(_, _, _, _, _)
Augment(j, path, row4col, col4row, cur) ==
    LET i == path[j]
        r4c == [row4col EXCEPT ![j] = i]
        c4r == [col4row EXCEPT ![i] = j]
    IN IF i = cur THEN [row4col |-> r4c, col4row |-> c4r]
       ELSE Augment(col4row[i], path, r4c, c4r, cur)

\* One row after the other: find its augmenting path, update the dual
\* variables, augment.
RECURSIVE SolveRows(_, _, _)
SolveRows(cur, t, D) ==
    IF cur >= D.nr THEN t.col4row
    ELSE LET a == augmenting_path(D, t, cur)
             u1 == [i \in 0..(D.nr - 1) |->
                      IF i = cur THEN t.u[i] + a.minVal
                      ELSE IF a.SR[i]
                           THEN t.u[i] + a.minVal - a.shortestPathCosts[t.col4row[i]]
                           ELSE t.u[i]]
             v1 == [j \in 0..(D.nc - 1) |->
                      IF a.SC[j] THEN t.v[j] - (a.minVal - a.shortestPathCosts[j])
                      ELSE t.v[j]]
             g == Augment(a.sink, a.path, t.row4col, t.col4row, cur)
         IN SolveRows(cur + 1,
                      [u |-> u1, v |-> v1, path |-> a.path,
                       row4col |-> g.row4col, col4row |-> g.col4row],
                      D)


\* linear_sum_assignment as a greedy pass: every row, in order, takes the
\* cheapest column still free.
RECURSIVE GreedyRows(_, _, _)
GreedyRows(cur, col4row, D) ==
    IF cur >= D.nr THEN col4row
    ELSE LET free == {j \in 0..(D.nc - 1) : \A i \in 0..(cur - 1) : col4row[i] # j}
             best == CHOOSE j \in free :
                        \A k \in free :
                            \/ D.cost[cur][j] < D.cost[cur][k]
                            \/ (D.cost[cur][j] = D.cost[cur][k] /\ j <= k)
         IN GreedyRows(cur + 1, [col4row EXCEPT ![cur] = best], D)

linear_sum_assignment_Greedy(D) ==
    GreedyRows(0, [i \in 0..(D.nr - 1) |-> -1], D)

\* The rectangular linear sum assignment: col4row, the column of every row.
linear_sum_assignment(D) ==
    SolveRows(0,
              [u |-> [i \in 0..(D.nr - 1) |-> 0],
               v |-> [j \in 0..(D.nc - 1) |-> 0],
               path |-> [j \in 0..(D.nc - 1) |-> -1],
               row4col |-> [j \in 0..(D.nc - 1) |-> -1],
               col4row |-> [i \in 0..(D.nr - 1) |-> -1]],
              D)


\* compute_node_mapping that gives every row its own cheapest column, whether
\* or not another row has it.
compute_node_mapping_RowMinimum(embedding_distances) ==
    IF embedding_distances.nr > embedding_distances.nc
    THEN [ok |-> FALSE, error |-> "InvalidShape"]
    ELSE [ok |-> TRUE,
          value |-> [i \in 0..(embedding_distances.nr - 1) |->
                       CHOOSE j \in 0..(embedding_distances.nc - 1) :
                           \A k \in 0..(embedding_distances.nc - 1) :
                               \/ embedding_distances.cost[i][j] < embedding_distances.cost[i][k]
                               \/ (embedding_distances.cost[i][j] = embedding_distances.cost[i][k]
                                   /\ j <= k)]]

\* NodeMapping.compute_node_mapping: the NodeCorrespondence (source node ->
\* target node) of least total distance, or InvalidShape when the matrix has
\* more rows than columns.
compute_node_mapping(embedding_distances) ==
    IF embedding_distances.nr > embedding_distances.nc
    THEN [ok |-> FALSE, error |-> "InvalidShape"]
    ELSE [ok |-> TRUE, value |-> linear_sum_assignment(embedding_distances)]

\* ---------------------------------------------------------- EditCost (4.3)
\* The target nodes that are the image of a source node.
Image(node_assignment) == {node_assignment[u] : u \in DOMAIN node_assignment}

\* The source node mapped to target node p.
Preimage(node_assignment, p) ==
    CHOOSE u \in DOMAIN node_assignment : node_assignment[u] = p

\* EditCost.compute_cost_node_edit: one unit for each matched pair whose node
\* labels differ, one unit (an insertion) for each unmatched target node.
compute_cost_node_edit(node_assignment, source_graph, target_graph) ==
    Cardinality({u \in DOMAIN node_assignment :
                    source_graph.x[u] # target_graph.x[node_assignment[u]]})
    + Cardinality((0..(target_graph.n - 1)) \ Image(node_assignment))


\* compute_cost_edge_edit that also charges an insertion for every target edge
\* touching an unmatched node.
compute_cost_edge_edit_AllTargetEdges(node_assignment, source_graph, target_graph) ==
    Cardinality({e \in source_graph.edges :
                    ~has_edge(target_graph,
                              node_assignment[e[1]], node_assignment[e[2]])})
    + Cardinality({e \in target_graph.edges :
                    \/ e[1] \notin Image(node_assignment)
                    \/ e[2] \notin Image(node_assignment)
                    \/ ~has_edge(source_graph,
                                 Preimage(node_assignment, e[1]),
                                 Preimage(node_assignment, e[2]))})

\* EditCost.compute_cost_edge_edit: one deletion for each source edge whose
\* mapped pair is no target edge, one insertion for each target edge between
\* two images whose source pair is no source edge.
compute_cost_edge_edit(node_assignment, source_graph, target_graph) ==
    Cardinality({e \in source_graph.edges :
                    ~has_edge(target_graph,
                              node_assignment[e[1]], node_assignment[e[2]])})
    + Cardinality({e \in target_graph.edges :
                    /\ e[1] \in Image(node_assignment)
                    /\ e[2] \in Image(node_assignment)
                    /\ ~has_edge(source_graph,
                                 Preimage(node_assignment, e[1]),
                                 Preimage(node_assignment, e[2]))})

\* ------------------------------------------------------------- the inputs
\* The dataset on disk (TUDataset + to_networkx), by dataset index.
TUDataset ==
    << Graph(0, {}, << >>),
       Graph(2, {<<0, 1>>}, <<0, 1>>),
       Graph(3, {<<0, 1>>, <<1, 2>>}, <<0, 1, 0>>),
       Graph(3, {<<0, 1>>, <<1, 2>>}, <<0, 0, 0>>),
       Graph(3, {<<0, 1>>, <<1, 2>>}, <<0, 0, 0>>),
       Graph(2, {<<0, 1>>}, <<1, 1>>) >>

\* The node embeddings the trained network produced for each dataset entry,
\* one row per node of its graph (the pickled dictionaries hold a part each).
PickledEmbeddings ==
    << Embedding(1, << >>),
       Embedding(1, << <<0>>, <<1>> >>),
       Embedding(1, << <<0>>, <<1>>, <<3>> >>),
       Embedding(1, << <<0>>, <<0>>, <<0>> >>),
       Embedding(1, << <<0>>, <<1>>, <<0>> >>),
       Embedding(2, << <<0, 0>>, <<3, 4>> >>) >>

DatasetIndices == 0..(Len(TUDataset) - 1)

\* The key lists of a pickled dictionary: distinct dataset indices, in the
\* dictionary's order.
KeyLists(max) ==
    UNION {{s \in [1..k -> DatasetIndices] :
               \A a, b \in 1..k : a # b => s[a] # s[b]} : k \in 0..max}

\* What is bound to no value yet.
NoGraph == [n |-> -1, edges |-> {}, x |-> Arr(<< >>)]
NoEmbedding == [n |-> -1, dim |-> -1, vec |-> Arr(<< >>)]
NoMatrix == [nr |-> -1, nc |-> -1, cost |-> Arr(<< >>)]
NoAssignment == Arr(<<-1>>)

\* ------------------------------------------------------------- the state
VARIABLES
    dataset_nx,          \* the graphs, by dataset index
    train_embeddings,    \* dataset index -> embedding (train collection)
    test_embeddings,     \* dataset index -> embedding (test collection)
    train_idx,           \* list(train_embeddings.keys())
    test_idx,            \* list(test_embeddings.keys())
    matrix_distances,    \* [shape, data]: the output matrix
    x_test,              \* outer loop index
    y_train,             \* inner loop index
    g1_nx,               \* the test graph of the current row
    g2_nx,               \* the train graph of the current cell
    source_embedding,
    target_embedding,
    source_graph,
    target_graph,
    embedding_distances,
    node_assignment,
    node_cost,
    edge_cost,
    pc,                  \* the statement main is about to run
    error,               \* the exception that ended the run, or "none"
    distances_npy,       \* the saved file: "absent", or the matrix saved
    writes,              \* history: how often each cell was assigned
    args_epochs,         \* args.epochs of perform_kfold_cv
    model,               \* [learned_from, training]: the network
    optimizer,           \* [step, learned_from]: the Adam optimizer
    fold,                \* index of the current fold
    train_loader,        \* number of batches of the fold's train loader
    epoch,               \* epochs of the current fold already trained
    val_accuracies,      \* one entry per evaluated fold
    val_losses           \* one entry per evaluated fold

vars == << dataset_nx, train_embeddings, test_embeddings, train_idx, test_idx,
           matrix_distances, x_test, y_train, g1_nx, g2_nx, source_embedding,
           target_embedding, source_graph, target_graph, embedding_distances,
           node_assignment, node_cost, edge_cost, pc, error, distances_npy,
           writes, args_epochs, model, optimizer, fold, train_loader, epoch,
           val_accuracies, val_losses >>

inputs == << dataset_nx, train_embeddings, test_embeddings, train_idx, test_idx >>

\* The state of perform_kfold_cv; main does not touch it.
cross_validation == << args_epochs, model, optimizer, fold, train_loader, epoch,
                      val_accuracies, val_losses >>

locals == << g1_nx, g2_nx, source_embedding, target_embedding, source_graph,
             target_graph, embedding_distances, node_assignment, node_cost,
             edge_cost >>

Cells(shape) == (0..(shape[1] - 1)) \X (0..(shape[2] - 1))

\* np.zeros(shape=(n_test_graphs, n_train_graphs), dtype=np.int32)
zeros(n_test_graphs, n_train_graphs) ==
    [shape |-> <<n_test_graphs, n_train_graphs>>,
     data |-> [c \in Cells(<<n_test_graphs, n_train_graphs>>) |-> 0]]

NoFile == [shape |-> <<-1, -1>>, data |-> [c \in {} |-> 0]]

\* No cross-validation runs beside main: no model, no optimizer, no fold.
NoCrossValidation ==
    /\ args_epochs = 0
    /\ model = [learned_from |-> {}, training |-> FALSE]
    /\ optimizer = [step |-> 0, learned_from |-> {}]
    /\ fold = 0
    /\ train_loader = 0
    /\ epoch = 0
    /\ val_accuracies = << >>
    /\ val_losses = << >>

\* The locals before the loops have bound them.
UnboundLocals ==
    /\ g1_nx = NoGraph
    /\ g2_nx = NoGraph
    /\ source_embedding = NoEmbedding
    /\ target_embedding = NoEmbedding
    /\ source_graph = NoGraph
    /\ target_graph = NoGraph
    /\ embedding_distances = NoMatrix
    /\ node_assignment = NoAssignment
    /\ node_cost = 0
    /\ edge_cost = 0

\* main up to the loops: the dataset and the two embedding dictionaries are
\* loaded, the matrix is allocated.
Init ==
    /\ dataset_nx = TUDataset
    /\ test_idx \in KeyLists(MaxTest)
    /\ train_idx \in KeyLists(MaxTrain)
    /\ test_embeddings = [k \in Range(test_idx) |-> At(PickledEmbeddings, k)]
    /\ train_embeddings = [k \in Range(train_idx) |-> At(PickledEmbeddings, k)]
    /\ matrix_distances = zeros(Len(test_idx), Len(train_idx))
    /\ x_test = 0
    /\ y_train = 0
    /\ UnboundLocals
    /\ pc = "for_x_test"
    /\ error = "none"
    /\ distances_npy = NoFile
    /\ writes = [c \in Cells(<<Len(test_idx), Len(train_idx)>>) |-> 0]
    /\ NoCrossValidation

\* -------------------------------------------------- the orchestrator (4.4)

\* BindRoles with "<" for "<=": on a tie the train graph becomes the source.
BindRoles_TieToTrain(g1, g2, test_embedding, train_embedding) ==
    IF number_of_nodes(g1) < number_of_nodes(g2)
    THEN [source_embedding |-> test_embedding,
          target_embedding |-> train_embedding,
          source_graph |-> g1,
          target_graph |-> g2]
    ELSE [source_embedding |-> train_embedding,
          target_embedding |-> test_embedding,
          source_graph |-> g2,
          target_graph |-> g1]

\* BindRoles without the swap: the test graph is always the source.
BindRoles_NeverSwap(g1, g2, test_embedding, train_embedding) ==
    [source_embedding |-> test_embedding,
     target_embedding |-> train_embedding,
     source_graph |-> g1,
     target_graph |-> g2]

\* BindRoles whose else-branch forgets to rebind the source: the source graph
\* and embedding of the cell before stay bound (the first cell binds them).
BindRoles_StaleSource(g1, g2, test_embedding, train_embedding) ==
    IF number_of_nodes(g1) <= number_of_nodes(g2)
    THEN [source_embedding |-> test_embedding,
          target_embedding |-> train_embedding,
          source_graph |-> g1,
          target_graph |-> g2]
    ELSE [source_embedding |-> IF source_graph = NoGraph THEN train_embedding
                               ELSE source_embedding,
          target_embedding |-> test_embedding,
          source_graph |-> IF source_graph = NoGraph THEN g2 ELSE source_graph,
          target_graph |-> g1]

\* The role selection of one cell: the graph with fewer nodes is the source,
\* the test graph on a tie; each role's embedding is the one of its graph.
BindRoles(g1, g2, test_embedding, train_embedding) ==
    IF number_of_nodes(g1) <= number_of_nodes(g2)
    THEN [source_embedding |-> test_embedding,
          target_embedding |-> train_embedding,
          source_graph |-> g1,
          target_graph |-> g2]
    ELSE [source_embedding |-> train_embedding,
          target_embedding |-> test_embedding,
          source_graph |-> g2,
          target_graph |-> g1]

\* for x_test in range(0, matrix_distances.shape[0]): bind the row's test
\* graph, or leave the loops when the rows are exhausted.
ForXTest ==
    /\ pc = "for_x_test"
    /\ IF x_test < matrix_distances.shape[1]
       THEN /\ g1_nx' = At(dataset_nx, At(test_idx, x_test))
            /\ y_train' = 0
            /\ pc' = "for_y_train"
       ELSE /\ pc' = "save"
            /\ UNCHANGED << g1_nx, y_train >>
    /\ UNCHANGED cross_validation
    /\ UNCHANGED << inputs, matrix_distances, x_test, g2_nx, source_embedding,
                    target_embedding, source_graph, target_graph,
                    embedding_distances, node_assignment, node_cost, edge_cost,
                    error, distances_npy, writes >>

\* for y_train in range(0, matrix_distances.shape[1]): bind the cell's train
\* graph and the roles, or go to the next row.
ForYTrain ==
    /\ pc = "for_y_train"
    /\ IF y_train < matrix_distances.shape[2]
       THEN LET g2 == At(dataset_nx, At(train_idx, y_train))
                roles == BindRoles(g1_nx, g2,
                                   test_embeddings[At(test_idx, x_test)],
                                   train_embeddings[At(train_idx, y_train)])
            IN /\ g2_nx' = g2
               /\ source_embedding' = roles.source_embedding
               /\ target_embedding' = roles.target_embedding
               /\ source_graph' = roles.source_graph
               /\ target_graph' = roles.target_graph
               /\ pc' = "distances"
               /\ UNCHANGED x_test
       ELSE /\ x_test' = x_test + 1
            /\ pc' = "for_x_test"
            /\ UNCHANGED << g2_nx, source_embedding, target_embedding,
                            source_graph, target_graph >>
    /\ UNCHANGED cross_validation
    /\ UNCHANGED << inputs, matrix_distances, y_train, g1_nx,
                    embedding_distances, node_assignment, node_cost, edge_cost,
                    error, distances_npy, writes >>


\* Raise as a per-cell error capture: the failure is noted and the run goes
\* on with the write of the cell.
Raise_Captured(exception) ==
    /\ pc' = "write"
    /\ error' = exception

\* An exception leaves main: nothing after the raising statement runs.
Raise(exception) ==
    /\ pc' = "raised"
    /\ error' = exception

\* ComputeEmbeddingDistances that refuses a source without nodes: an empty
\* graph is reported as an error before any distance is computed.
ComputeEmbeddingDistances_RejectEmpty ==
    /\ pc = "distances"
    /\ LET r == IF source_embedding.n = 0
                THEN [ok |-> FALSE, error |-> "EmptyGraph"]
                ELSE compute_embedding_distances(source_embedding, target_embedding)
       IN IF r.ok
          THEN /\ embedding_distances' = r.value
               /\ pc' = "assignment"
               /\ UNCHANGED error
          ELSE /\ Raise(r.error)
               /\ UNCHANGED embedding_distances
    /\ UNCHANGED cross_validation
    /\ UNCHANGED << inputs, matrix_distances, x_test, y_train, g1_nx, g2_nx,
                    source_embedding, target_embedding, source_graph,
                    target_graph, node_assignment, node_cost, edge_cost,
                    distances_npy, writes >>

\* node_mapping = NodeMapping(source_embedding, target_embedding)
\* embedding_distances = node_mapping.compute_embedding_distances()
ComputeEmbeddingDistances ==
    /\ pc = "distances"
    /\ LET r == compute_embedding_distances(source_embedding, target_embedding)
       IN IF r.ok
          THEN /\ embedding_distances' = r.value
               /\ pc' = "assignment"
               /\ UNCHANGED error
          ELSE /\ Raise(r.error)
               /\ UNCHANGED embedding_distances
    /\ UNCHANGED cross_validation
    /\ UNCHANGED << inputs, matrix_distances, x_test, y_train, g1_nx, g2_nx,
                    source_embedding, target_embedding, source_graph,
                    target_graph, node_assignment, node_cost, edge_cost,
                    distances_npy, writes >>

\* node_assignment = node_mapping.compute_node_mapping(embedding_distances)
ComputeNodeMapping ==
    /\ pc = "assignment"
    /\ LET r == compute_node_mapping(embedding_distances)
       IN IF r.ok
          THEN /\ node_assignment' = r.value
               /\ pc' = "edit_cost"
               /\ UNCHANGED error
          ELSE /\ Raise(r.error)
               /\ UNCHANGED node_assignment
    /\ UNCHANGED cross_validation
    /\ UNCHANGED << inputs, matrix_distances, x_test, y_train, g1_nx, g2_nx,
                    source_embedding, target_embedding, source_graph,
                    target_graph, embedding_distances, node_cost, edge_cost,
                    distances_npy, writes >>

\* edit_cost = EditCost(node_assignment, source_graph, target_graph)
\* node_cost = edit_cost.compute_cost_node_edit()
\* edge_cost = edit_cost.compute_cost_edge_edit()
ComputeEditCost ==
    /\ pc = "edit_cost"
    /\ node_cost' = compute_cost_node_edit(node_assignment, source_graph, target_graph)
    /\ edge_cost' = compute_cost_edge_edit(node_assignment, source_graph, target_graph)
    /\ pc' = "write"
    /\ UNCHANGED cross_validation
    /\ UNCHANGED << inputs, matrix_distances, x_test, y_train, g1_nx, g2_nx,
                    source_embedding, target_embedding, source_graph,
                    target_graph, embedding_distances, node_assignment, error,
                    distances_npy, writes >>


\* WrittenCell with the two indices exchanged.
WrittenCell_Transposed(x, y) == <<y, x>>

\* WrittenCell that ignores the column index.
WrittenCell_FirstColumn(x, y) == <<x, 0>>

\* The cell the assignment of line 73 stores into.
WrittenCell(x, y) == <<x, y>>

\* matrix_distances[x_test, y_train] = node_cost + edge_cost, and the inner
\* loop steps to the next column.
WriteCell ==
    /\ pc = "write"
    /\ LET cell == WrittenCell(x_test, y_train)
       IN /\ matrix_distances' =
                [matrix_distances EXCEPT !.data[cell] = node_cost + edge_cost]
          /\ writes' = [writes EXCEPT ![cell] = @ + 1]
    /\ y_train' = y_train + 1
    /\ pc' = "for_y_train"
    /\ UNCHANGED cross_validation
    /\ UNCHANGED << inputs, x_test, locals, error, distances_npy >>

\* np.save(os.path.join(args.output_dir, 'distances.npy'), matrix_distances)
Save ==
    /\ pc = "save"
    /\ distances_npy' = matrix_distances
    /\ pc' = "done"
    /\ UNCHANGED cross_validation
    /\ UNCHANGED << inputs, matrix_distances, x_test, y_train, locals, error,
                    writes >>

Next ==
    \/ ForXTest
    \/ ForYTrain
    \/ ComputeEmbeddingDistances
    \/ ComputeNodeMapping
    \/ ComputeEditCost
    \/ WriteCell
    \/ Save

Spec == Init /\ [][Next]_vars

\* ------------------------------------- the components on their own
\* The injective maps of m source nodes into n target nodes.
Injections(m, n) ==
    {f \in [0..(m - 1) -> 0..(n - 1)] :
        \A a, b \in 0..(m - 1) : a # b => f[a] # f[b]}

\* The shapes of the cost matrices: up to MaxCells entries, and at most one
\* row more than columns (the solver refuses those).
Shapes ==
    {sh \in (0..MaxCells) \X (0..MaxCells) :
        sh[1] * sh[2] <= MaxCells /\ sh[1] <= sh[2] + 1}

\* The cost matrices of one shape, entries in 0..MaxCost.
CostMatrices(nr, nc) ==
    {[nr |-> nr, nc |-> nc, cost |-> c] :
        c \in [0..(nr - 1) -> [0..(nc - 1) -> 0..MaxCost]]}

\* No dataset is loaded and no loop runs when a component is exercised alone.
NothingLoaded ==
    /\ dataset_nx = << >>
    /\ test_idx = << >>
    /\ train_idx = << >>
    /\ test_embeddings = [k \in {} |-> NoEmbedding]
    /\ train_embeddings = [k \in {} |-> NoEmbedding]
    /\ matrix_distances = zeros(0, 0)
    /\ x_test = 0
    /\ y_train = 0
    /\ error = "none"
    /\ distances_npy = NoFile
    /\ writes = [c \in {} |-> 0]

\* NodeMapping.compute_node_mapping on an arbitrary cost matrix.
InitAssign ==
    /\ NothingLoaded
    /\ g1_nx = NoGraph
    /\ g2_nx = NoGraph
    /\ source_embedding = NoEmbedding
    /\ target_embedding = NoEmbedding
    /\ source_graph = NoGraph
    /\ target_graph = NoGraph
    /\ \E sh \in Shapes : embedding_distances \in CostMatrices(sh[1], sh[2])
    /\ node_assignment = NoAssignment
    /\ node_cost = 0
    /\ edge_cost = 0
    /\ pc = "assignment"
    /\ NoCrossValidation

NextAssign == ComputeNodeMapping

SpecAssign == InitAssign /\ [][NextAssign]_vars

\* The undirected edges a graph on n nodes can have.
Pairs(n) == {e \in (0..(n - 1)) \X (0..(n - 1)) : e[1] < e[2]}

\* The graphs the cost accounting is exercised on: any edge set with one
\* label on every node, or any labelling with no edge.
CostGraphs(n) ==
    {[n |-> n, edges |-> E, x |-> [i \in 0..(n - 1) |-> 0]] : E \in SUBSET Pairs(n)}
    \cup {[n |-> n, edges |-> {}, x |-> l] : l \in [0..(n - 1) -> 0..MaxLabel]}

\* EditCost on an arbitrary correspondence between two arbitrary graphs.
InitCost ==
    /\ NothingLoaded
    /\ g1_nx = NoGraph
    /\ g2_nx = NoGraph
    /\ source_embedding = NoEmbedding
    /\ target_embedding = NoEmbedding
    /\ \E m \in 0..MaxNodes : \E n \in m..MaxNodes :
          /\ source_graph \in CostGraphs(m)
          /\ target_graph \in CostGraphs(n)
          /\ node_assignment \in Injections(m, n)
    /\ embedding_distances = NoMatrix
    /\ node_cost = 0
    /\ edge_cost = 0
    /\ pc = "edit_cost"
    /\ NoCrossValidation

NextCost == ComputeEditCost

SpecCost == InitCost /\ [][NextCost]_vars

\* The embedding of a graph whose node i sits at coordinate at[i].
LineEmbedding(n, at) ==
    [n |-> n, dim |-> 1, vec |-> [i \in 0..(n - 1) |-> << at[i] >>]]

\* main on one cell that pairs a graph without nodes with an arbitrary graph
\* of up to MaxNodes nodes; the empty graph is the test graph or the train
\* graph. Key 0 of the dataset is the empty graph, key 1 the other one.
InitDegenerate ==
    /\ \E k \in 0..MaxNodes : \E g \in CostGraphs(k) :
       \E at \in [0..(k - 1) -> 0..MaxCost] : \E empty_key \in {"test", "train"} :
          LET embeddings == << LineEmbedding(0, << >>), LineEmbedding(k, at) >>
          IN /\ dataset_nx = << Graph(0, {}, << >>), g >>
             /\ test_idx = IF empty_key = "test" THEN <<0>> ELSE <<1>>
             /\ train_idx = IF empty_key = "test" THEN <<1>> ELSE <<0>>
             /\ test_embeddings = [key \in Range(test_idx) |-> At(embeddings, key)]
             /\ train_embeddings = [key \in Range(train_idx) |-> At(embeddings, key)]
    /\ matrix_distances = zeros(1, 1)
    /\ x_test = 0
    /\ y_train = 0
    /\ UnboundLocals
    /\ pc = "for_x_test"
    /\ error = "none"
    /\ distances_npy = NoFile
    /\ writes = [c \in Cells(<<1, 1>>) |-> 0]
    /\ NoCrossValidation

SpecDegenerate == InitDegenerate /\ [][Next]_vars

\* ------------------------------ k-fold cross-validation (run_kfold_cv.py)
\* What a run learns is modelled by its provenance: the learned_from field of
\* the model (its weights), of the optimizer (its Adam moment estimates) and
\* of a validation result is the set of folds whose training batches the
\* value has been computed from. Freshly drawn weights have learned from no
\* fold.

\* k_fold = 10
k_fold == 10

\* Everything of main except its position.
main_state == << inputs, matrix_distances, x_test, y_train, locals, error,
                 distances_npy, writes >>

\* reset_weights applied to the model: every layer that has
\* reset_parameters draws its parameters afresh.
reset_weights(m) == [m EXCEPT !.learned_from = {}]

\* One batch of train: optimizer.zero_grad(), the forward pass, the loss,
\* loss.backward() and optimizer.step(). The gradient is computed from the
\* weights and the batch; Adam folds it into its moment estimates, counts
\* the step and moves the weights along the moments.
TrainBatch(opt, m, f) ==
    LET gradient == m.learned_from \cup {f}
        moments == opt.learned_from \cup gradient
    IN [optimizer |-> [step |-> opt.step + 1, learned_from |-> moments],
        model |-> [m EXCEPT !.learned_from = @ \cup moments]]

\* for data in train_loader: the batches of one epoch, one after the other.
RECURSIVE TrainBatches(_, _, _, _)
TrainBatches(batches, opt, m, f) ==
    IF batches = 0
    THEN [optimizer |-> opt, model |-> m]
    ELSE LET r == TrainBatch(opt, m, f)
         IN TrainBatches(batches - 1, r.optimizer, r.model, f)

\* train(train_loader, device, optimizer, model, criterion) on the loader of
\* fold f: model.train(), then every batch.
train(loader, opt, m, f) ==
    TrainBatches(loader, opt, [m EXCEPT !.training = TRUE], f)

\* test(test_loader, device, model, criterion, loader_size) after the given
\* number of training epochs of fold f: model.eval(); accuracy and loss are
\* computed with the current weights, nothing is learned.
test(m, f, epochs_trained) ==
    [model |-> [m EXCEPT !.training = FALSE],
     result |-> [fold |-> f, learned_from |-> m.learned_from,
                 epochs_trained |-> epochs_trained]]

\* perform_kfold_cv up to the fold loop: the model and the Adam optimizer
\* are constructed, once; the result lists are empty.
InitKFold ==
    /\ NothingLoaded
    /\ UnboundLocals
    /\ args_epochs \in 0..MaxEpochs
    /\ model = [learned_from |-> {}, training |-> TRUE]
    /\ optimizer = [step |-> 0, learned_from |-> {}]
    /\ fold = 0
    /\ train_loader = 0
    /\ epoch = 0
    /\ val_accuracies = << >>
    /\ val_losses = << >>
    /\ pc = "for_fold"

\* for fold, (train_idx, val_idx) in enumerate(kf.split(...)): the loaders of
\* the fold are built, or the loop is left after the last fold.
ForFold ==
    /\ pc = "for_fold"
    /\ IF fold < k_fold
       THEN /\ train_loader' \in 1..MaxBatches
            /\ pc' = "reset"
       ELSE /\ pc' = "average"
            /\ UNCHANGED train_loader
    /\ UNCHANGED << args_epochs, model, optimizer, fold, epoch, val_accuracies,
                    val_losses >>
    /\ UNCHANGED main_state

\* model.apply(reset_weights)
ResetWeights ==
    /\ pc = "reset"
    /\ model' = reset_weights(model)
    /\ epoch' = 0
    /\ pc' = "for_epoch"
    /\ UNCHANGED << args_epochs, optimizer, fold, train_loader, val_accuracies,
                    val_losses >>
    /\ UNCHANGED main_state

\* for epoch in range(args.epochs): train(...), or leave the loop.
ForEpoch ==
    /\ pc = "for_epoch"
    /\ IF epoch < args_epochs
       THEN LET r == train(train_loader, optimizer, model, fold)
            IN /\ model' = r.model
               /\ optimizer' = r.optimizer
               /\ epoch' = epoch + 1
               /\ UNCHANGED pc
       ELSE /\ pc' = "test"
            /\ UNCHANGED << model, optimizer, epoch >>
    /\ UNCHANGED << args_epochs, fold, train_loader, val_accuracies, val_losses >>
    /\ UNCHANGED main_state

\* val_accuracy, val_loss = test(val_loader, ...); both are appended to their
\* lists and logged, and the loop goes to the next fold.
Test ==
    /\ pc = "test"
    /\ LET r == test(model, fold, epoch)
       IN /\ model' = r.model
          /\ val_accuracies' = Append(val_accuracies, r.result)
          /\ val_losses' = Append(val_losses, r.result)
    /\ fold' = fold + 1
    /\ pc' = "for_fold"
    /\ UNCHANGED << args_epochs, optimizer, train_loader, epoch >>
    /\ UNCHANGED main_state

\* The averages over the folds are computed and logged.
Average ==
    /\ pc = "average"
    /\ pc' = "done"
    /\ UNCHANGED cross_validation
    /\ UNCHANGED main_state

NextKFold ==
    \/ ForFold
    \/ ResetWeights
    \/ ForEpoch
    \/ Test
    \/ Average

SpecKFold == InitKFold /\ [][NextKFold]_vars

\* -------------------------------------------------------- the properties
\* The cell the loops are at, and what the two collections hold for it.
TestKey == At(test_idx, x_test)
TrainKey == At(train_idx, y_train)
TestGraph == At(dataset_nx, TestKey)
TrainGraph == At(dataset_nx, TrainKey)
TestEmbedding == test_embeddings[TestKey]
TrainEmbedding == train_embeddings[TrainKey]

\* The roles of the current cell are bound.
InCell == pc \in {"distances", "assignment", "edit_cost", "write"}

TestIsSource ==
    /\ source_graph = TestGraph
    /\ source_embedding = TestEmbedding
    /\ target_graph = TrainGraph
    /\ target_embedding = TrainEmbedding

TrainIsSource ==
    /\ source_graph = TrainGraph
    /\ source_embedding = TrainEmbedding
    /\ target_graph = TestGraph
    /\ target_embedding = TestEmbedding

\* C1: in every cell the graph with fewer nodes is the source and the other
\* the target, the test graph is the source when both have the same number of
\* nodes, and each role's graph and embedding are those of one dataset entry.
C1_SmallerGraphIsSource ==
    InCell =>
        /\ TestGraph.n < TrainGraph.n => TestIsSource
        /\ TrainGraph.n < TestGraph.n => TrainIsSource
        /\ TestGraph.n = TrainGraph.n => TestIsSource
        /\ source_graph.n <= target_graph.n
        /\ source_embedding.n = source_graph.n
        /\ target_embedding.n = target_graph.n

\* C1 witness: a cell of two different entries with the same number of nodes
\* and different embeddings, the test entry bound as the source.
C1_TieBoundToTest ==
    /\ pc = "distances"
    /\ TestKey # TrainKey
    /\ TestGraph.n = TrainGraph.n
    /\ TestEmbedding # TrainEmbedding
    /\ source_embedding = TestEmbedding

\* C2: whenever the node assignment is invoked its matrix has no more rows
\* (source nodes) than columns (target nodes), and InvalidShape never ends a
\* run.
C2_NoInvalidShape ==
    /\ pc = "assignment" => embedding_distances.nr <= embedding_distances.nc
    /\ error # "InvalidShape"

\* C2 witness: the assignment is invoked for a test graph larger than the
\* train graph, on a matrix with fewer rows than columns.
C2_SwappedCellAssigned ==
    /\ pc = "assignment"
    /\ TestGraph.n > TrainGraph.n
    /\ embedding_distances.nr = TrainGraph.n
    /\ embedding_distances.nc = TestGraph.n

\* C3 (as claimed): at the end of a run, the distance of A (test) to B (train)
\* equals the distance of B (test) to A (train), for any two entries A and B
\* that are in both collections.
C3_RoleSymmetry ==
    pc = "done" =>
        \A i, k \in 0..(Len(test_idx) - 1) : \A j, l \in 0..(Len(train_idx) - 1) :
            (At(test_idx, i) = At(train_idx, l) /\ At(train_idx, j) = At(test_idx, k))
                => matrix_distances.data[<<i, j>>] = matrix_distances.data[<<k, l>>]

\* The distance of one (test, train) pair, from those two entries alone: the
\* entry with fewer nodes (the test entry on a tie) is the source of the
\* distance, assignment and cost stages.
PairDistance(test_graph, test_embedding, train_graph, train_embedding) ==
    LET testFirst == test_graph.n <= train_graph.n
        sg == IF testFirst THEN test_graph ELSE train_graph
        tg == IF testFirst THEN train_graph ELSE test_graph
        se == IF testFirst THEN test_embedding ELSE train_embedding
        te == IF testFirst THEN train_embedding ELSE test_embedding
        na == compute_node_mapping(compute_embedding_distances(se, te).value).value
    IN compute_cost_node_edit(na, sg, tg) + compute_cost_edge_edit(na, sg, tg)

ExpectedCell(i, j) ==
    PairDistance(At(dataset_nx, At(test_idx, i)), test_embeddings[At(test_idx, i)],
                 At(dataset_nx, At(train_idx, j)), train_embeddings[At(train_idx, j)])

\* C4: when a run completes the matrix has one row per test graph and one
\* column per train graph, and cell [i, j] holds node cost + edge cost of test
\* graph i and train graph j; that matrix is what is saved.
C4_MatrixHoldsPairDistances ==
    pc = "done" =>
        /\ matrix_distances.shape = <<Len(test_idx), Len(train_idx)>>
        /\ DOMAIN matrix_distances.data = Cells(<<Len(test_idx), Len(train_idx)>>)
        /\ \A c \in DOMAIN matrix_distances.data :
              matrix_distances.data[c] = ExpectedCell(c[1], c[2])
        /\ distances_npy = matrix_distances

\* C4 witness: a completed 2 x 2 run whose off-diagonal cells differ.
C4_CompletedRun ==
    /\ pc = "done"
    /\ matrix_distances.shape = <<2, 2>>
    /\ matrix_distances.data[<<0, 1>>] # matrix_distances.data[<<1, 0>>]
    /\ matrix_distances.data[<<0, 0>>] # matrix_distances.data[<<0, 1>>]

\* C5: no cell is assigned twice, the cell being computed has not been
\* assigned yet, and once the loops are left every cell has been assigned
\* exactly once.
C5_WriteOncePerCell ==
    /\ \A c \in DOMAIN writes : writes[c] <= 1
    /\ InCell => writes[<<x_test, y_train>>] = 0
    /\ pc \in {"save", "done"} => \A c \in DOMAIN writes : writes[c] = 1

\* C5 witness: a completed run over four cells, each assigned once.
C5_AllCellsWrittenOnce ==
    /\ pc = "done"
    /\ Cardinality(DOMAIN writes) = 4
    /\ \A c \in DOMAIN writes : writes[c] = 1

\* What one step may do to the inputs and to the matrix.
C6_CellStep ==
    /\ inputs' = inputs
    /\ IF pc = "write"
       THEN /\ matrix_distances'.data[<<x_test, y_train>>] = ExpectedCell(x_test, y_train)
            /\ \A c \in DOMAIN matrix_distances.data \ {<<x_test, y_train>>} :
                  matrix_distances'.data[c] = matrix_distances.data[c]
            /\ DOMAIN matrix_distances'.data = DOMAIN matrix_distances.data
       ELSE matrix_distances' = matrix_distances

\* C6: a step never changes the graphs or the embeddings, the only step that
\* changes the matrix is the assignment to the current cell, and the value it
\* stores is the distance of that cell's two entries alone, whatever the
\* cells before it left behind; so the final matrix does not depend on the
\* order in which the cells are processed.
C6_CellIndependence == [][C6_CellStep]_vars

\* C6 witness: a cell is written while the source bound by the cell before it
\* was another graph (the earlier cell had swapped roles, this one has not).
C6_WrittenAfterOtherCell ==
    /\ pc = "write"
    /\ y_train = 1
    /\ source_graph = TestGraph
    /\ At(dataset_nx, At(train_idx, 0)).n < TestGraph.n
    /\ matrix_distances.data[<<x_test, 0>>] # node_cost + edge_cost

\* What one step may do when a stage fails or has failed.
C7_FailureStep ==
    /\ pc # "raised"
    /\ (pc = "distances" /\ source_embedding.dim # target_embedding.dim)
          => (pc' = "raised" /\ error' = "DimensionMismatch")
    /\ (pc = "assignment" /\ embedding_distances.nr > embedding_distances.nc)
          => (pc' = "raised" /\ error' = "InvalidShape")
    /\ pc' = "raised" => (distances_npy' = NoFile /\ matrix_distances' = matrix_distances)
    /\ error' # "none" => pc' = "raised"
    /\ distances_npy' # NoFile => error' = "none"

\* C7: a stage that fails ends the run at once: the exception is raised at the
\* failing stage, no step follows it (no later cell is computed), and the
\* matrix is saved only by a run in which nothing failed.
C7_FailureAbortsRun == [][C7_FailureStep]_vars

\* C7 witness: the second cell of a row failed with DimensionMismatch after
\* the first was written; nothing is saved.
C7_FailedAfterFirstCell ==
    /\ pc = "raised"
    /\ error = "DimensionMismatch"
    /\ y_train = 1
    /\ writes[<<x_test, 0>>] = 1
    /\ writes[<<x_test, 1>>] = 0
    /\ distances_npy = NoFile

\* The assignment of the current matrix has been computed.
Assigned == pc = "edit_cost" /\ embedding_distances.nr <= embedding_distances.nc

\* C8: for a matrix with m <= n the correspondence maps each of the m source
\* nodes to a target node, no target node twice, and leaves exactly n - m
\* target nodes unmatched; it is never refused.
C8_InjectiveTotalCorrespondence ==
    /\ Assigned =>
          /\ DOMAIN node_assignment = 0..(embedding_distances.nr - 1)
          /\ \A u \in DOMAIN node_assignment :
                node_assignment[u] \in 0..(embedding_distances.nc - 1)
          /\ \A u, w \in DOMAIN node_assignment :
                u # w => node_assignment[u] # node_assignment[w]
          /\ Cardinality((0..(embedding_distances.nc - 1)) \ Image(node_assignment))
                = embedding_distances.nc - embedding_distances.nr
    /\ (pc = "raised" /\ error = "InvalidShape")
          => embedding_distances.nr > embedding_distances.nc

\* C8 witness: a 2 x 3 matrix whose two rows both have their least cost in
\* column 0 has been assigned.
C8_RectangularAssigned ==
    /\ pc = "edit_cost"
    /\ embedding_distances.nr = 2
    /\ embedding_distances.nc = 3
    /\ \A i \in 0..1 : embedding_distances.cost[i] = Arr(<<0, 1, 1>>)

RECURSIVE TotalCost(_, _, _)
\* The sum of the costs of the first k matched pairs of f.
TotalCost(D, f, k) ==
    IF k = 0 THEN 0 ELSE D.cost[k - 1][f[k - 1]] + TotalCost(D, f, k - 1)

\* C9: the total cost of the correspondence is at most the total cost of every
\* injective matching of all m rows.
C9_AssignmentOptimal ==
    Assigned =>
        \A f \in Injections(embedding_distances.nr, embedding_distances.nc) :
            TotalCost(embedding_distances, node_assignment, embedding_distances.nr)
                <= TotalCost(embedding_distances, f, embedding_distances.nr)

\* C9 witness: a 3 x 3 matrix for which row 0 had to give up its free column 0
\* to reach total cost 0.
C9_ReassignedOptimum ==
    /\ pc = "edit_cost"
    /\ embedding_distances.nr = 3
    /\ embedding_distances.nc = 3
    /\ embedding_distances.cost[0][0] = 0
    /\ node_assignment[0] # 0
    /\ TotalCost(embedding_distances, node_assignment, 3) = 0

\* The pairs of source nodes that are an edge on exactly one side of the
\* correspondence.
MismatchedPairs ==
    {e \in Pairs(source_graph.n) :
        has_edge(source_graph, e[1], e[2])
            # has_edge(target_graph, node_assignment[e[1]], node_assignment[e[2]])}

\* The scenario of the specification: source nodes {0,1} with edge (0,1),
\* target nodes {0,1,2} with edges (0,1),(1,2), correspondence 0->0, 1->1.
Scenario ==
    /\ source_graph.n = 2
    /\ source_graph.edges = {<<0, 1>>}
    /\ target_graph.n = 3
    /\ target_graph.edges = {<<0, 1>>, <<1, 2>>}
    /\ node_assignment = Arr(<<0, 1>>)
    /\ \A u \in 0..1 : source_graph.x[u] = target_graph.x[u]

\* C10: the edge cost is the number of pairs of source nodes that are an edge
\* on one side of the correspondence and not on the other (a deletion or an
\* insertion each), so target edges touching an unmatched node count nothing;
\* in the scenario the node cost is 1 and the edge cost 0.
C10_EdgeCostOverMatchedPairs ==
    pc = "write" =>
        /\ edge_cost = Cardinality(MismatchedPairs)
        /\ Scenario => (node_cost = 1 /\ edge_cost = 0)

\* C10 witness: the scenario, its costs computed.
C10_ScenarioCosted ==
    /\ pc = "write"
    /\ Scenario
    /\ node_cost = 1
    /\ edge_cost = 0

\* The larger node count of the two graphs of the cell.
OtherNodes ==
    IF number_of_nodes(At(dataset_nx, 0)) >= number_of_nodes(At(dataset_nx, 1))
    THEN number_of_nodes(At(dataset_nx, 0))
    ELSE number_of_nodes(At(dataset_nx, 1))

\* C11: a pair of a graph without nodes and a graph of k nodes, with the empty
\* graph in either collection, never raises: the empty graph is the source,
\* the correspondence is empty, the node cost is k (one insertion per node
\* of the other graph), the edge cost is 0 whatever edges the other graph
\* has, and the cell of the saved matrix holds k.
C11_EmptyGraphIsValid ==
    /\ pc # "raised"
    /\ error = "none"
    /\ InCell => source_graph.n = 0 /\ target_graph.n = OtherNodes
    /\ pc \in {"edit_cost", "write"} => DOMAIN node_assignment = {}
    /\ pc = "write" => node_cost = OtherNodes /\ edge_cost = 0
    /\ pc = "done" => distances_npy.data[<<0, 0>>] = OtherNodes

\* The empty graph is the train graph, the test graph has MaxNodes nodes and
\* every edge between them, and the saved cell holds MaxNodes.
C11_EmptyTrainGraphSaved ==
    /\ pc = "done"
    /\ train_idx = <<0>>
    /\ number_of_nodes(At(dataset_nx, 1)) = MaxNodes
    /\ At(dataset_nx, 1).edges = Pairs(MaxNodes)
    /\ distances_npy.data[<<0, 0>>] = MaxNodes

\* The fold loop is inside fold `fold`, between the reset and the evaluation.
InFold == pc \in {"for_epoch", "test"}

\* The weights the first training step of a fold starts from are the
\* freshly reset ones.
WeightsResetBeforeTraining ==
    (pc = "for_epoch" /\ epoch = 0) => model.learned_from = {}

\* A fold is evaluated after all of its epochs, and its result says so.
EvaluatedAfterLastEpoch ==
    /\ pc = "test" => epoch = args_epochs
    /\ \A i \in 1..Len(val_accuracies) :
          val_accuracies[i].epochs_trained = args_epochs

\* What a fold trains and what it reports has been learned from that fold
\* alone.
NoEarlierFoldInfluence ==
    /\ InFold => model.learned_from \subseteq {fold}
    /\ \A i \in 1..Len(val_accuracies) :
          /\ val_accuracies[i].learned_from \subseteq {val_accuracies[i].fold}
          /\ val_losses[i].learned_from \subseteq {val_losses[i].fold}

\* C12: in every fold of perform_kfold_cv the weights are reset before the
\* fold's first training step, the fold is evaluated only after its last
\* epoch, and nothing learned during an earlier fold influences the training
\* or the validation result of a later fold.
C12_NoFoldLeakage ==
    /\ WeightsResetBeforeTraining
    /\ EvaluatedAfterLastEpoch
    /\ NoEarlierFoldInfluence

====
